---------------------------- MODULE Spec2Model ----------------------------
(***************************************************************************)
(* A model of smolcert's certificates.go: the certificate data model on a  *)
(* heap of Go objects (structs, pointers, slices), Certificate.Copy, the   *)
(* single-certificate validator validateCertificate, CertPool.Validate and *)
(* CertPool.ValidateBundle.                                                *)
(*                                                                         *)
(* Go values that alias (pointers, slices) are addresses into `heap`; a    *)
(* slice is the address of its backing array.  Signatures are symbolic:    *)
(* a signature is the pair of the signing key and the signed bytes, and    *)
(* ed25519.Verify succeeds exactly on the pair made of the given public    *)
(* key and the given message.                                              *)
(***************************************************************************)
EXTENDS Integers, Sequences, FiniteSets, TLC

VARIABLES
    heap,    \* the Go heap: a sequence of cells, an address is an index
    pool,    \* the CertPool: a function from subject to certificate address
    bundle,  \* the certBundle slice handed to ValidateBundle
    arg,     \* the certificate the caller passes to Validate, validate or Copy
    clone,   \* what Certificate.Copy returned to the caller, or NULL
    now,     \* the wall clock, in ticks
    op,      \* the operation that made the last step
    ret,     \* what the last call returned: [cert, err]
    writes   \* number of stores the caller has made through a certificate

vars == <<heap, pool, bundle, arg, clone, now, op, ret, writes>>

---------------------------------------------------------------------------
(* Bounds of the model. *)

\* Clock ticks per second: time.Now() is finer than a Time, which counts
\* whole seconds.
TicksPerSecond == 2

\* The largest notBefore / notAfter (seconds) of the certificates handed to
\* validateCertificate alone.
MaxTime == 2

\* The last second the clock reaches while pools and bundles are validated.
MaxSeconds == 2

\* The longest bundle handed to ValidateBundle.
MaxBundle == 3

\* The number of stores a caller makes through a certificate or its clone.
MaxWrites == 1

---------------------------------------------------------------------------
(* Go values. *)

\* The nil pointer, the nil slice.
NULL == 0

\* The nil error.
Nil == <<>>

\* A run-time panic (nil pointer dereference): the call does not return.
Panic == <<"panic: invalid memory address or nil pointer dereference">>

ErrNotYetValid == <<"certificate can't be valid yet">>
ErrExpired == <<"certificate is not valid anymore">>
ErrSerialize == <<"Failed to serialize certificate for validation">>
ErrBadSignature == <<"Signature validation failed">>
ErrUnknownIssuer == <<"certificate is not signed by a known issuer">>
ErrRootPrefix == <<"Error validating issuing root certificate: ">>
ErrNoLeaf == <<"Can't find non-intermediate certificate in certificate chain">>
ErrNoIssuerPrefix == <<"No issuer for the client certificate was found in the intermediate certificates: ">>
ErrBrokenChain == <<"Validation error in chain of intermediate certificates">>
ErrNoTrustAnchor == <<"The intermediate chain is self signed and not signed by one of the root certs of this pool">>

\* LET x == v IN F(x), with v evaluated once.
With(v, F(_)) == CHOOSE r \in {F(x) : x \in {v}} : TRUE

\* The backing array of a slice; a nil slice has no elements.
Elems(h, s) == IF s = NULL THEN <<>> ELSE h[s]

---------------------------------------------------------------------------
(* Time, Validity, Extension, Certificate. *)

\* Time.IsZero taking only a nil *Time for zero.
IsZeroNilOnly(h, t) == t = NULL

\* Time.IsZero: a nil *Time or the value 0.
IsZero(h, t) == t = NULL \/ h[t] = 0

\* Time.StdTime: time.Unix(t, 0), the instant t seconds after the epoch.
StdTime(h, t) == h[t] * TicksPerSecond

\* The codec's encoding of a *Time: null for nil, else the integer.
EncTime(h, t) == IF t = NULL THEN <<"null">> ELSE <<"int", h[t]>>

\* The codec's encoding of a *Validity (a two-element array).
EncValidity(h, v) ==
    IF v = NULL THEN <<"null">>
    ELSE <<"array", EncTime(h, h[v].NotBefore), EncTime(h, h[v].NotAfter)>>

\* The codec's encoding of a byte slice: null for nil, else the bytes.
EncBytes(h, s) == IF s = NULL THEN <<"null">> ELSE <<"bytes", h[s]>>

\* The codec's encoding of []Extension: null for nil, else the triples.
EncExtensions(h, s) ==
    IF s = NULL THEN <<"null">>
    ELSE <<"array", [i \in 1..Len(h[s]) |->
               <<h[s][i].OID, h[s][i].Critical, EncBytes(h, h[s][i].Value)>>]>>

\* Certificate.Bytes / Serialize: the fields in declaration order (toarray).
Bytes(h, c) ==
    <<h[c].SerialNumber, h[c].Issuer, EncValidity(h, h[c].Validity),
      h[c].Subject, EncBytes(h, h[c].PubKey),
      EncExtensions(h, h[c].Extensions), EncBytes(h, h[c].Signature)>>

\* ed25519 signing, symbolically: the signature bytes name the key and the
\* message.  Only the holder of `key` can make them.
Sign(key, msg) == <<[key |-> key, msg |-> msg]>>

\* ed25519.Verify(pubKey, message, sig).
Verify(pubKey, msg, sig) == sig = Sign(pubKey, msg)

\* Certificate.Copy.  c.Validity is dereferenced unguarded: a nil Validity
\* panics.  The key and signature bytes get fresh backing arrays; the new
\* Validity struct keeps the two *Time pointers of the original; the new
\* Extension array holds copies of the structs, whose Value slices keep the
\* backing arrays of the original.  The five new cells go to the end of the
\* heap, the new Certificate last.
Copy(h, c) ==
    IF h[c].Validity = NULL THEN [panic |-> TRUE, heap |-> h, ptr |-> NULL]
    ELSE [panic |-> FALSE,
          heap  |-> h \o << Elems(h, h[c].PubKey),
                            [NotBefore |-> h[h[c].Validity].NotBefore,
                             NotAfter  |-> h[h[c].Validity].NotAfter],
                            Elems(h, h[c].Extensions),
                            Elems(h, h[c].Signature),
                            [SerialNumber |-> h[c].SerialNumber,
                             Issuer       |-> h[c].Issuer,
                             Validity     |-> Len(h) + 2,
                             Subject      |-> h[c].Subject,
                             PubKey       |-> Len(h) + 1,
                             Extensions   |-> Len(h) + 3,
                             Signature    |-> Len(h) + 4] >>,
          ptr   |-> Len(h) + 5]

\* The value of a certificate: every field followed through its references.
CertValue(h, c) ==
    [SerialNumber |-> h[c].SerialNumber,
     Issuer       |-> h[c].Issuer,
     Validity     |-> EncValidity(h, h[c].Validity),
     Subject      |-> h[c].Subject,
     PubKey       |-> EncBytes(h, h[c].PubKey),
     Extensions   |-> EncExtensions(h, h[c].Extensions),
     Signature    |-> EncBytes(h, h[c].Signature)]

---------------------------------------------------------------------------
(* The single-certificate validator. *)

\* What is left of the heap when validateCertificate returns: its copy of
\* the certificate is local, so the cells past the first n are unreachable.
Collect(h, n) == SubSeq(h, 1, n)

\* cert.Signature = nil, then cert.Bytes() and ed25519.Verify: the end of
\* validateCertificate, on the heap h2 in which the signature is cleared.
VerifyCleared(h2, cert, pubKey, sig, n) ==
    IF ~Verify(Elems(h2, pubKey), Bytes(h2, cert), Elems(h2, sig))
    THEN [err |-> ErrBadSignature, heap |-> Collect(h2, n)]
    ELSE [err |-> Nil, heap |-> Collect(h2, n)]

\* validateCertificate from line 122 on, cert being the certificate it
\* works on and n the size of the heap when it was called.
ValidateCopy(h1, cert, pubKey, clock, n) ==
    LET v == h1[h1[cert].Validity]
    IN  IF ~IsZero(h1, v.NotBefore) /\ clock < StdTime(h1, v.NotBefore)
        THEN [err |-> ErrNotYetValid, heap |-> Collect(h1, n)]
        ELSE IF ~IsZero(h1, v.NotAfter) /\ clock > StdTime(h1, v.NotAfter)
        THEN [err |-> ErrExpired, heap |-> Collect(h1, n)]
        ELSE With([h1 EXCEPT ![cert].Signature = NULL],
                  LAMBDA h2 : VerifyCleared(h2, cert, pubKey,
                                            h1[cert].Signature, n))

\* validateCertificate working on the caller's certificate instead of a copy.
validateCertificateInPlace(h, origCert, pubKey, clock) ==
    IF h[origCert].Validity = NULL THEN [err |-> Panic, heap |-> h]
    ELSE ValidateCopy(h, origCert, pubKey, clock, Len(h))

\* validateCertificate(origCert, pubKey) with time.Now() = clock: the error
\* returned and the heap it leaves.  Serializing into a bytes.Buffer does not
\* fail, so ErrSerialize is never returned.
validateCertificate(h, origCert, pubKey, clock) ==
    With(Copy(h, origCert),
         LAMBDA cp : IF cp.panic THEN [err |-> Panic, heap |-> h]
                     ELSE ValidateCopy(cp.heap, cp.ptr, pubKey, clock, Len(h)))

---------------------------------------------------------------------------
(* The trust pool. *)

\* m[k] = v on a Go map.
MapPut(m, k, v) == [x \in DOMAIN m \cup {k} |-> IF x = k THEN v ELSE m[x]]

\* The loop of NewCertPool from the i-th root on: p[c.Subject] = c.
RECURSIVE PoolLoop(_, _, _, _)
PoolLoop(h, rootCerts, i, p) ==
    IF i > Len(rootCerts) THEN p
    ELSE With(MapPut(p, h[rootCerts[i]].Subject, rootCerts[i]),
              LAMBDA p2 : PoolLoop(h, rootCerts, i + 1, p2))

\* NewCertPool(rootCerts...).
NewCertPool(h, rootCerts) == PoolLoop(h, rootCerts, 1, <<>>)

\* CertPool.Validate once the issuing root is validated, r1 being what
\* that validation returned.
ValidateIssued(r1, issuerCert, cert, clock) ==
    IF r1.err = Panic THEN r1
    ELSE IF r1.err # Nil
    THEN [err |-> ErrRootPrefix \o r1.err, heap |-> r1.heap]
    ELSE validateCertificate(r1.heap, cert, r1.heap[issuerCert].PubKey, clock)

\* CertPool.Validate without the validation of the issuing root itself.
ValidateTrustingRoot(h, p, cert, clock) ==
    IF h[cert].Issuer \notin DOMAIN p \/ p[h[cert].Issuer] = NULL
    THEN [err |-> ErrUnknownIssuer, heap |-> h]
    ELSE validateCertificate(h, cert, h[p[h[cert].Issuer]].PubKey, clock)

\* CertPool.Validate(cert).
Validate(h, p, cert, clock) ==
    IF h[cert].Issuer \notin DOMAIN p \/ p[h[cert].Issuer] = NULL
    THEN [err |-> ErrUnknownIssuer, heap |-> h]
    ELSE With(validateCertificate(h, p[h[cert].Issuer],
                                  h[p[h[cert].Issuer]].PubKey, clock),
              LAMBDA r1 : ValidateIssued(r1, p[h[cert].Issuer], cert, clock))

---------------------------------------------------------------------------
(* The bundle validator. *)

\* The first loop of ValidateBundle, from the i-th certificate on:
\* issuerMap[cert.Issuer] = cert.
RECURSIVE IssuerMapLoop(_, _, _, _)
IssuerMapLoop(h, certBundle, i, m) ==
    IF i > Len(certBundle) THEN m
    ELSE With(MapPut(m, h[certBundle[i]].Issuer, certBundle[i]),
              LAMBDA m2 : IssuerMapLoop(h, certBundle, i + 1, m2))

\* The first loop of ValidateBundle: subjectMap[cert.Subject] = cert.
RECURSIVE SubjectMapLoop(_, _, _, _)
SubjectMapLoop(h, certBundle, i, m) ==
    IF i > Len(certBundle) THEN m
    ELSE With(MapPut(m, h[certBundle[i]].Subject, certBundle[i]),
              LAMBDA m2 : SubjectMapLoop(h, certBundle, i + 1, m2))

IssuerMap(h, certBundle) == IssuerMapLoop(h, certBundle, 1, <<>>)

SubjectMap(h, certBundle) == SubjectMapLoop(h, certBundle, 1, <<>>)

\* The second loop of ValidateBundle, from the i-th certificate on: a
\* certificate whose subject is some bundle certificate's issuer is appended
\* to intermediateCerts, any other one overwrites clientCert.
RECURSIVE ClassifyLoop(_, _, _, _, _)
ClassifyLoop(h, issuers, certBundle, i, acc) ==
    IF i > Len(certBundle) THEN acc
    ELSE With(IF h[certBundle[i]].Subject \in issuers
              THEN [acc EXCEPT !.intermediateCerts = Append(@, certBundle[i])]
              ELSE [acc EXCEPT !.clientCert = certBundle[i]],
              LAMBDA acc2 : ClassifyLoop(h, issuers, certBundle, i + 1, acc2))

\* intermediateCerts and clientCert as the second loop leaves them.
Classify(h, certBundle) ==
    With(DOMAIN IssuerMap(h, certBundle),
         LAMBDA issuers :
             ClassifyLoop(h, issuers, certBundle, 1,
                          [intermediateCerts |-> <<>>, clientCert |-> NULL]))

\* One round of the third loop once the intermediate is validated, r being
\* what that validation returned.
ChainStep(r, acc) ==
    IF r.err = Panic THEN [acc EXCEPT !.err = Panic, !.heap = r.heap]
    ELSE IF r.err # Nil THEN [acc EXCEPT !.err = ErrBrokenChain, !.heap = r.heap]
    ELSE [acc EXCEPT !.heap = r.heap]

\* The third loop of ValidateBundle, from the i-th intermediate on: each
\* intermediate whose issuer is a bundle subject is validated against that
\* certificate's key, any other one overwrites chainTopCert.  The loop ends
\* at the first validation that fails.
RECURSIVE ChainLoop(_, _, _, _, _)
ChainLoop(subjectMap, intermediateCerts, i, acc, clock) ==
    IF i > Len(intermediateCerts) \/ acc.err # Nil THEN acc
    ELSE With(IF acc.heap[intermediateCerts[i]].Issuer \in DOMAIN subjectMap
              THEN With(validateCertificate(
                            acc.heap, intermediateCerts[i],
                            acc.heap[subjectMap[
                                acc.heap[intermediateCerts[i]].Issuer]].PubKey,
                            clock),
                        LAMBDA r : ChainStep(r, acc))
              ELSE [acc EXCEPT !.chainTopCert = intermediateCerts[i]],
              LAMBDA acc2 : ChainLoop(subjectMap, intermediateCerts, i + 1,
                                      acc2, clock))

\* The end of ValidateBundle: the chain top against the pool.
ValidateTop(r, clientCert) ==
    IF r.err # Nil THEN [cert |-> NULL, err |-> r.err, heap |-> r.heap]
    ELSE [cert |-> clientCert, err |-> Nil, heap |-> r.heap]

\* ValidateBundle after its third loop, validating the chain top only if
\* there is one.
ValidateChainTopIfAny(lp, p, clientCert, clock) ==
    IF lp.err # Nil THEN [cert |-> NULL, err |-> lp.err, heap |-> lp.heap]
    ELSE IF lp.chainTopCert = NULL
    THEN [cert |-> clientCert, err |-> Nil, heap |-> lp.heap]
    ELSE With(Validate(lp.heap, p, lp.chainTopCert, clock),
              LAMBDA r : ValidateTop(r, clientCert))

\* ValidateBundle after its third loop, lp being what the loop left.
ValidateChainTop(lp, p, clientCert, clock) ==
    IF lp.err # Nil THEN [cert |-> NULL, err |-> lp.err, heap |-> lp.heap]
    ELSE IF lp.chainTopCert = NULL
    THEN [cert |-> NULL, err |-> ErrNoTrustAnchor, heap |-> lp.heap]
    ELSE With(Validate(lp.heap, p, lp.chainTopCert, clock),
              LAMBDA r : ValidateTop(r, clientCert))

\* ValidateBundle from line 99 on: the chain of intermediates, then the
\* chain top against the pool.
ValidateChain(h, p, subjectMap, intermediateCerts, clientCert, clock) ==
    With(ChainLoop(subjectMap, intermediateCerts, 1,
                   [err |-> Nil, heap |-> h, chainTopCert |-> NULL], clock),
         LAMBDA lp : ValidateChainTop(lp, p, clientCert, clock))

\* ValidateBundle, lines 87 to 90: the client certificate is validated
\* against the key of the bundle certificate that carries its issuer's name.
ValidateClient(r, p, subjectMap, intermediateCerts, clientCert, clock) ==
    IF r.err # Nil THEN [cert |-> NULL, err |-> r.err, heap |-> r.heap]
    ELSE ValidateChain(r.heap, p, subjectMap, intermediateCerts, clientCert, clock)

\* ValidateBundle, lines 92 to 96: no bundle certificate carries the name of
\* the client certificate's issuer, and the pool decides.
ValidateDirect(r, clientCert) ==
    IF r.err = Nil THEN [cert |-> clientCert, err |-> Nil, heap |-> r.heap]
    ELSE IF r.err = Panic THEN [cert |-> NULL, err |-> Panic, heap |-> r.heap]
    ELSE [cert |-> NULL, err |-> ErrNoIssuerPrefix \o r.err, heap |-> r.heap]

\* ValidateBundle from line 83 on.
ValidateClassified(h, p, subjectMap, intermediateCerts, clientCert, clock) ==
    IF clientCert = NULL
    THEN [cert |-> NULL, err |-> ErrNoLeaf, heap |-> h]
    ELSE IF h[clientCert].Issuer \in DOMAIN subjectMap
    THEN With(validateCertificate(h, clientCert,
                                  h[subjectMap[h[clientCert].Issuer]].PubKey,
                                  clock),
              LAMBDA r : ValidateClient(r, p, subjectMap, intermediateCerts,
                                        clientCert, clock))
    ELSE With(Validate(h, p, clientCert, clock),
              LAMBDA r : ValidateDirect(r, clientCert))

\* CertPool.ValidateBundle(certBundle) with time.Now() = clock: the client
\* certificate and the error returned, and the heap it leaves.
ValidateBundle(h, p, certBundle, clock) ==
    With(SubjectMap(h, certBundle),
         LAMBDA subjectMap :
             With(Classify(h, certBundle),
                  LAMBDA cl : ValidateClassified(h, p, subjectMap,
                                                 cl.intermediateCerts,
                                                 cl.clientCert, clock)))

---------------------------------------------------------------------------
(* Certificates on the heap. *)

\* A certificate is described by its scalar fields, its key bytes, the key
\* that signed it, its validity (<<>> for a nil *Validity, else the pair of
\* bounds, each <<>> for a nil *Time or <<seconds>>) and its extensions.
Desc(serial, issuer, subj, key, signer, validity, exts) ==
    [SerialNumber |-> serial, Issuer |-> issuer, Subject |-> subj, Key |-> key,
     Signer |-> signer, Validity |-> validity, Exts |-> exts]

\* The cells of a validity: the two Time values that are not nil, then the
\* Validity struct, the first cell at address n + 1.
ValidityCells(n, validity) ==
    IF validity = <<>> THEN <<>>
    ELSE LET hasB == validity[1] # <<>>
             hasA == validity[2] # <<>>
             nb == IF hasB THEN n + 1 ELSE NULL
             na == IF ~hasA THEN NULL ELSE IF hasB THEN n + 2 ELSE n + 1
         IN  validity[1] \o validity[2] \o <<[NotBefore |-> nb, NotAfter |-> na]>>

\* The cells of the extensions: the Value bytes of each, then the array of
\* Extension structs, the first cell at address n + 1.
ExtensionCells(n, exts) ==
    [i \in 1..Len(exts) |-> exts[i].Value]
    \o <<[i \in 1..Len(exts) |->
            [OID |-> exts[i].OID, Critical |-> exts[i].Critical, Value |-> n + i]]>>

\* &Certificate{...} built from a description, its Signature still nil.  The
\* certificate is the last cell of the heap returned.
AllocUnsigned(h, d) ==
    LET n  == Len(h)
        vc == ValidityCells(n + 1, d.Validity)
        ec == ExtensionCells(n + 1 + Len(vc), d.Exts)
    IN  h \o <<d.Key>> \o vc \o ec
          \o <<[SerialNumber |-> d.SerialNumber,
                Issuer       |-> d.Issuer,
                Validity     |-> IF vc = <<>> THEN NULL ELSE n + 1 + Len(vc),
                Subject      |-> d.Subject,
                PubKey       |-> n + 1,
                Extensions   |-> n + 1 + Len(vc) + Len(ec),
                Signature    |-> NULL]>>

\* The certificate of the heap hu signed with `signer`: the signature is made
\* over Bytes() of the certificate while its Signature is nil.  The
\* certificate is the last but one cell of the heap returned.
SignLast(hu, signer) ==
    [hu EXCEPT ![Len(hu)].Signature = Len(hu) + 1]
        \o <<Sign(signer, Bytes(hu, Len(hu)))>>

\* A signed certificate put on the heap.
AllocCert(h, d) ==
    With(AllocUnsigned(h, d), LAMBDA hu : SignLast(hu, d.Signer))

\* The address of the certificate AllocCert put on the heap.
LastCert(h) == Len(h) - 1

\* The keys.  BadKey is held by nobody: a signature under it is a corrupted
\* signature.
BadKey == <<0>>
RootKey == <<1>>
CaKey == <<2>>
LeafKey == <<3>>
EvilKey == <<4>>
SubCaKey == <<5>>

NoValidity == <<>>
Unbounded == <<<<>>, <<>>>>
ZeroBounds == <<<<0>>, <<0>>>>
SecondOne == <<<<1>>, <<1>>>>

\* The certificates pools and bundles are built from.
\*   1 root    self-signed, valid during second 1 only
\*   2 rootBad as 1, its self-signature corrupted, no time bounds
\*   3 rootNil as 1, its validity nil
\*   4 ca      issued by root
\*   5 leaf    issued by ca
\*   6 evilCa  a self-signed certificate that takes ca's subject
\*   7 mallory issued by evilCa
\*   8 dev     issued by ca, its validity nil
\*   9 subCa   issued by ca
\*  10 leaf2   issued by subCa
Universe ==
    << Desc(1, "root", "root", RootKey, RootKey, SecondOne, <<>>),
       Desc(2, "root", "root", RootKey, BadKey, ZeroBounds, <<>>),
       Desc(3, "root", "root", RootKey, RootKey, NoValidity, <<>>),
       Desc(4, "root", "ca", CaKey, RootKey, ZeroBounds, <<>>),
       Desc(5, "ca", "leaf", LeafKey, CaKey, Unbounded, <<>>),
       Desc(6, "ca", "ca", EvilKey, EvilKey, Unbounded, <<>>),
       Desc(7, "ca", "mallory", LeafKey, EvilKey, Unbounded, <<>>),
       Desc(8, "ca", "dev", LeafKey, CaKey, NoValidity, <<>>),
       Desc(9, "ca", "subCa", SubCaKey, CaKey, ZeroBounds, <<>>),
       Desc(10, "subCa", "leaf2", LeafKey, SubCaKey, SecondOne, <<>>) >>

\* The certificates of descs from the i-th on put on the heap acc.heap, their
\* addresses appended to acc.certs.
RECURSIVE AllocAll(_, _, _)
AllocAll(acc, descs, i) ==
    IF i > Len(descs) THEN acc
    ELSE With(AllocCert(acc.heap, descs[i]),
              LAMBDA h1 :
                  With([heap |-> h1, certs |-> Append(acc.certs, LastCert(h1))],
                       LAMBDA acc2 : AllocAll(acc2, descs, i + 1)))

UniverseHeap == AllocAll([heap |-> <<>>, certs |-> <<>>], Universe, 1)

\* The addresses of the certificates of the universe, in its order.
Certs == UniverseHeap.certs

RootCerts == {Certs[1], Certs[2], Certs[3]}

BundleCerts == {Certs[i] : i \in 1..Len(Certs)} \ {Certs[2], Certs[3]}

\* The sequences of at most n distinct elements of S.
RECURSIVE DistinctSeqs(_, _)
DistinctSeqs(S, n) ==
    IF n = 0 THEN {<<>>}
    ELSE With(DistinctSeqs(S, n - 1),
              LAMBDA shorter :
                  shorter \cup
                  UNION {{Append(s, x) : x \in S \ {s[i] : i \in 1..Len(s)}} :
                         s \in {t \in shorter : Len(t) = n - 1}})

\* The root lists NewCertPool is called with.
PoolChoices == DistinctSeqs(RootCerts, 2)

NoReturn == [cert |-> NULL, err |-> Nil]

---------------------------------------------------------------------------
(* Validating bundles and certificates against a pool. *)

Init ==
    /\ heap = UniverseHeap.heap
    /\ \E rootCerts \in PoolChoices : pool = NewCertPool(heap, rootCerts)
    /\ bundle \in DistinctSeqs(BundleCerts, MaxBundle)
    /\ arg = NULL
    /\ clone = NULL
    /\ now = 0
    /\ op = "init"
    /\ ret = NoReturn
    /\ writes = 0

\* A second passes.
TickSecond ==
    /\ now + TicksPerSecond <= MaxSeconds * TicksPerSecond
    /\ now' = now + TicksPerSecond
    /\ op' = "Tick"
    /\ ret' = NoReturn
    /\ UNCHANGED <<heap, pool, bundle, arg, clone, writes>>

\* The caller calls pool.ValidateBundle(bundle).
CallValidateBundle ==
    /\ \E r \in {ValidateBundle(heap, pool, bundle, now)} :
           /\ heap' = r.heap
           /\ ret' = [cert |-> r.cert, err |-> r.err]
    /\ op' = "ValidateBundle"
    /\ UNCHANGED <<pool, bundle, arg, clone, now, writes>>

\* The caller calls pool.Validate(bundle[i]).
CallValidate(i) ==
    /\ \E r \in {Validate(heap, pool, bundle[i], now)} :
           /\ heap' = r.heap
           /\ ret' = [cert |-> NULL, err |-> r.err]
    /\ arg' = bundle[i]
    /\ op' = "Validate"
    /\ UNCHANGED <<pool, bundle, clone, now, writes>>

Next ==
    \/ TickSecond
    \/ CallValidateBundle
    \/ \E i \in 1..Len(bundle) : CallValidate(i)

Spec == Init /\ [][Next]_vars

---------------------------------------------------------------------------
(* Validating one certificate against a key. *)

\* The bounds a certificate may carry: a nil *Time, or a number of seconds
\* (negative, zero or positive).
TimeChoices == {<<>>} \cup {<<t>> : t \in -1..MaxTime}

ValidityChoices ==
    {NoValidity} \cup {<<b, a>> : b \in TimeChoices, a \in TimeChoices}

ExtensionChoices ==
    {<<>>, <<[OID |-> 7, Critical |-> TRUE, Value |-> <<1>>]>>}

\* Self-signed certificates and certificates with a corrupted signature.
CertChoices ==
    {Desc(1, "root", "root", RootKey, signer, validity, exts) :
        signer \in {RootKey, BadKey},
        validity \in ValidityChoices,
        exts \in ExtensionChoices}

\* The clock stops after the second that follows the largest bound.
LastTick == (MaxTime + 1) * TicksPerSecond

InitCert ==
    /\ \E d \in CertChoices : heap = AllocCert(<<>>, d)
    /\ pool = <<>>
    /\ bundle = <<>>
    /\ arg = LastCert(heap)
    /\ clone = NULL
    /\ now = 0
    /\ op = "init"
    /\ ret = NoReturn
    /\ writes = 0

\* A tick passes.
Tick ==
    /\ now < LastTick
    /\ now' = now + 1
    /\ op' = "Tick"
    /\ ret' = NoReturn
    /\ UNCHANGED <<heap, pool, bundle, arg, clone, writes>>

\* The caller calls validateCertificate(arg, arg.PubKey).
CallValidateCertificate ==
    /\ \E r \in {validateCertificate(heap, arg, heap[arg].PubKey, now)} :
           /\ heap' = r.heap
           /\ ret' = [cert |-> NULL, err |-> r.err]
    /\ op' = "validateCertificate"
    /\ UNCHANGED <<pool, bundle, arg, clone, now, writes>>

NextCert == Tick \/ CallValidateCertificate

SpecCert == InitCert /\ [][NextCert]_vars

---------------------------------------------------------------------------
(* Copying a certificate and storing through the copy or the original. *)

\* The caller calls arg.Copy() and keeps the result.
CallCopy ==
    /\ clone = NULL
    /\ op # "Copy"
    /\ \E cp \in {Copy(heap, arg)} :
           /\ heap' = cp.heap
           /\ clone' = cp.ptr
           /\ ret' = [cert |-> cp.ptr, err |-> IF cp.panic THEN Panic ELSE Nil]
    /\ op' = "Copy"
    /\ UNCHANGED <<pool, bundle, arg, now, writes>>

\* What every store of the caller does besides the store itself.
Stored(who, name) ==
    /\ writes' = writes + 1
    /\ op' = name
    /\ ret' = [cert |-> who, err |-> Nil]
    /\ UNCHANGED <<pool, bundle, arg, clone, now>>

\* who.PubKey[0] = 0
StoreKeyByte(who) ==
    /\ Len(Elems(heap, heap[who].PubKey)) >= 1
    /\ heap' = [heap EXCEPT ![heap[who].PubKey][1] = BadKey[1]]
    /\ Stored(who, "StoreKeyByte")

\* who.Signature[0] = a byte of some other signature
StoreSignatureByte(who) ==
    /\ Len(Elems(heap, heap[who].Signature)) >= 1
    /\ heap' = [heap EXCEPT ![heap[who].Signature][1] = Sign(BadKey, <<>>)[1]]
    /\ Stored(who, "StoreSignatureByte")

\* who.Signature = nil
ClearSignature(who) ==
    /\ heap[who].Signature # NULL
    /\ heap' = [heap EXCEPT ![who].Signature = NULL]
    /\ Stored(who, "ClearSignature")

\* *who.Validity.NotBefore += 1
StoreNotBefore(who) ==
    /\ heap[who].Validity # NULL
    /\ heap[heap[who].Validity].NotBefore # NULL
    /\ heap' = [heap EXCEPT ![heap[heap[who].Validity].NotBefore] = @ + 1]
    /\ Stored(who, "StoreNotBefore")

\* *who.Validity.NotAfter += 1
StoreNotAfter(who) ==
    /\ heap[who].Validity # NULL
    /\ heap[heap[who].Validity].NotAfter # NULL
    /\ heap' = [heap EXCEPT ![heap[heap[who].Validity].NotAfter] = @ + 1]
    /\ Stored(who, "StoreNotAfter")

\* who.Validity.NotBefore = nil
ClearNotBefore(who) ==
    /\ heap[who].Validity # NULL
    /\ heap[heap[who].Validity].NotBefore # NULL
    /\ heap' = [heap EXCEPT ![heap[who].Validity].NotBefore = NULL]
    /\ Stored(who, "ClearNotBefore")

\* who.Extensions[0].Critical = !who.Extensions[0].Critical
StoreExtension(who) ==
    /\ Len(Elems(heap, heap[who].Extensions)) >= 1
    /\ heap' = [heap EXCEPT ![heap[who].Extensions][1].Critical = ~@]
    /\ Stored(who, "StoreExtension")

\* who.Extensions[0].Value[0] += 1
StoreExtensionValue(who) ==
    /\ Len(Elems(heap, heap[who].Extensions)) >= 1
    /\ Len(Elems(heap, heap[heap[who].Extensions][1].Value)) >= 1
    /\ heap' = [heap EXCEPT ![heap[heap[who].Extensions][1].Value][1] = @ + 1]
    /\ Stored(who, "StoreExtensionValue")

StoreOps ==
    {"StoreKeyByte", "StoreSignatureByte", "ClearSignature", "StoreNotBefore",
     "StoreNotAfter", "ClearNotBefore", "StoreExtension", "StoreExtensionValue"}

\* A store through the original or through the clone.
Store(who) ==
    /\ clone # NULL
    /\ writes < MaxWrites
    /\ \/ StoreKeyByte(who)
       \/ StoreSignatureByte(who)
       \/ ClearSignature(who)
       \/ StoreNotBefore(who)
       \/ StoreNotAfter(who)
       \/ ClearNotBefore(who)
       \/ StoreExtension(who)
       \/ StoreExtensionValue(who)

NextCopy == CallCopy \/ Store(arg) \/ Store(clone)

SpecCopy == InitCert /\ [][NextCopy]_vars

---------------------------------------------------------------------------
(* What the claims speak of. *)

Issuer(c) == heap[c].Issuer

Subject(c) == heap[c].Subject

BundleSet == {bundle[i] : i \in 1..Len(bundle)}

Subjects == {Subject(c) : c \in BundleSet}

PoolRoots == {pool[s] : s \in DOMAIN pool} \ {NULL}

\* The orderings of the bundle.
Orderings == {p \in DistinctSeqs(BundleSet, Len(bundle)) : Len(p) = Len(bundle)}

\* c passes validate under the public key of certificate k, now.
Passes(c, k) == validateCertificate(heap, c, heap[k].PubKey, now).err = Nil

\* The signature of c is the signature, under the key of certificate k, of
\* the encoding of c with its signature cleared.
SignedBy(c, k) ==
    Elems(heap, heap[c].Signature)
        = Sign(Elems(heap, heap[k].PubKey),
               Bytes([heap EXCEPT ![c].Signature = NULL], c))

\* The seconds of a bound; an absent bound counts as 0, unconstrained.
Seconds(t) == IF t = NULL THEN 0 ELSE heap[t]

NotBeforeOf(c) == Seconds(heap[heap[c].Validity].NotBefore)

NotAfterOf(c) == Seconds(heap[heap[c].Validity].NotAfter)

\* now is inside the time window of c; an absent validity is no constraint.
InWindow(c) ==
    \/ heap[c].Validity = NULL
    \/ /\ NotBeforeOf(c) = 0 \/ now >= NotBeforeOf(c) * TicksPerSecond
       /\ NotAfterOf(c) = 0 \/ now <= NotAfterOf(c) * TicksPerSecond

\* The certificate the second loop of ValidateBundle selects as the leaf.
Leaf == Classify(heap, bundle).clientCert

Intermediates ==
    LET ic == Classify(heap, bundle).intermediateCerts
    IN  {ic[i] : i \in 1..Len(ic)}

\* The bundle certificate whose key ValidateBundle checks c against: the
\* last one of the slice that carries the name of c's issuer.
IssuerInBundle(c) == SubjectMap(heap, bundle)[Issuer(c)]

\* From c, a chain of bundle certificates of at most n links, each passing
\* validate under the key of the next, reaches a certificate that passes
\* validate under the key of a pool root that passes validate under its own.
RECURSIVE Anchored(_, _)
Anchored(c, n) ==
    \/ \E r \in PoolRoots :
           Issuer(c) = Subject(r) /\ Passes(c, r) /\ Passes(r, r)
    \/ /\ n > 0
       /\ \E d \in BundleSet :
              Issuer(c) = Subject(d) /\ Passes(c, d) /\ Anchored(d, n - 1)

\* C1: whenever ValidateBundle returns a client certificate and no error, a
\* chain of bundle certificates leads from it to a pool root, every link
\* passing validate and the root passing validate under its own key.
C1_SuccessImpliesChainToRoot ==
    (op = "ValidateBundle" /\ ret.err = Nil)
        => Anchored(ret.cert, Len(bundle))

\* p is a leaf followed by its chain of intermediates, n >= 1 of them, with
\* pairwise distinct subjects, each signed by the next and the last by a valid
\* self-signed pool root of yet another subject, all inside their window.
IsChain(p) ==
    /\ Len(p) >= 2
    /\ \A i, j \in 1..Len(p) : i < j => Subject(p[i]) # Subject(p[j])
    /\ \A i \in 1..Len(p) : InWindow(p[i])
    /\ \A i \in 1..(Len(p) - 1) :
           Issuer(p[i]) = Subject(p[i + 1]) /\ SignedBy(p[i], p[i + 1])
    /\ \E r \in PoolRoots :
           /\ Issuer(r) = Subject(r) /\ SignedBy(r, r) /\ InWindow(r)
           /\ Issuer(p[Len(p)]) = Subject(r) /\ SignedBy(p[Len(p)], r)
           /\ \A i \in 1..Len(p) : Subject(p[i]) # Subject(r)

\* Every certificate of p and every pool root carries a validity.
ValidityPresent(p) ==
    /\ \A i \in 1..Len(p) : heap[p[i]].Validity # NULL
    /\ \A r \in PoolRoots : heap[r].Validity # NULL

\* C2: a bundle that is, in some order, a leaf and its chain of n >= 1
\* intermediates up to a valid self-signed pool root, all inside their time
\* window, is accepted with the leaf as client certificate, in every order.
C2_ChainAcceptedInAnyOrder ==
    op = "ValidateBundle"
        => \A p \in Orderings :
               IsChain(p) => ret = [cert |-> p[1], err |-> Nil]

\* C2 holds of the chains in which every validity is present: the chains it
\* fails on are those on which Certificate.Copy panics (C6).
C2_HoldsWhenValidityPresent ==
    op = "ValidateBundle"
        => \A p \in Orderings :
               (IsChain(p) /\ ValidityPresent(p))
                   => ret = [cert |-> p[1], err |-> Nil]

\* The leaf's issuer is the subject of no bundle certificate.
LeafIssuerAbsent == Leaf # NULL /\ Issuer(Leaf) \notin Subjects

\* C3: when the leaf's issuer is the subject of no bundle certificate,
\* ValidateBundle returns the leaf and no error if Validate(leaf) succeeds,
\* and an error and no certificate otherwise.
C3_FallbackDecidedByPool ==
    (op = "ValidateBundle" /\ LeafIssuerAbsent)
        => IF Validate(heap, pool, Leaf, now).err = Nil
           THEN ret = [cert |-> Leaf, err |-> Nil]
           ELSE ret.cert = NULL /\ ret.err \notin {Nil, Panic}

\* C3 holds whenever Validate(leaf) returns: it fails only where Validate
\* panics in Certificate.Copy (C6).
C3_HoldsWhenValidateReturns ==
    (op = "ValidateBundle" /\ LeafIssuerAbsent
        /\ Validate(heap, pool, Leaf, now).err # Panic)
        => IF Validate(heap, pool, Leaf, now).err = Nil
           THEN ret = [cert |-> Leaf, err |-> Nil]
           ELSE ret.cert = NULL /\ ret.err \notin {Nil, Panic}

\* The pool has a root under the name of arg's issuer.
IssuerKnown == Issuer(arg) \in DOMAIN pool /\ pool[Issuer(arg)] # NULL

\* What validate returns for c under the key of certificate k, now.
ValidateErr(c, k) == validateCertificate(heap, c, heap[k].PubKey, now).err

\* C4: Validate(cert) succeeds exactly when the pool has an entry under
\* cert's issuer, that root passes validate under its own key and cert
\* passes validate under the root's key; a missing issuer is an unknown
\* issuer error, and a root that fails is reported, cert not being examined.
C4_ValidateIffRootAndCertPass ==
    op = "Validate"
        => /\ (ret.err = Nil)
                  <=> (/\ IssuerKnown
                       /\ Passes(pool[Issuer(arg)], pool[Issuer(arg)])
                       /\ Passes(arg, pool[Issuer(arg)]))
           /\ ~IssuerKnown => ret.err = ErrUnknownIssuer
           /\ (IssuerKnown /\ ~Passes(pool[Issuer(arg)], pool[Issuer(arg)]))
                  => ret.err =
                         IF ValidateErr(pool[Issuer(arg)], pool[Issuer(arg)]) = Panic
                         THEN Panic
                         ELSE ErrRootPrefix \o ValidateErr(pool[Issuer(arg)],
                                                           pool[Issuer(arg)])

\* Validate was called on a certificate correctly signed by the key of a
\* pool root whose own signature is corrupted, and failed on the root.
C4_Witness ==
    /\ op = "Validate"
    /\ IssuerKnown
    /\ SignedBy(arg, pool[Issuer(arg)])
    /\ ~SignedBy(pool[Issuer(arg)], pool[Issuer(arg)])
    /\ ret.err = ErrRootPrefix \o ErrBadSignature

\* The leaf's issuer and every intermediate's issuer are subjects of bundle
\* certificates: the bundle has no chain top.
NoChainTop ==
    /\ Leaf # NULL
    /\ Issuer(Leaf) \in Subjects
    /\ \A c \in Intermediates : Issuer(c) \in Subjects

\* Every link ValidateBundle validates inside the bundle passes.
AllLinksPass == \A c \in Intermediates \cup {Leaf} : Passes(c, IssuerInBundle(c))

\* C8: on a bundle without chain top ValidateBundle never succeeds, whatever
\* the pool holds, and when every link passes the error is the
\* no-trust-anchor error.
C8_NoChainTopNeverSucceeds ==
    (op = "ValidateBundle" /\ NoChainTop)
        => /\ ret.err # Nil
           /\ ret.cert = NULL
           /\ AllLinksPass => ret.err = ErrNoTrustAnchor

\* ValidateBundle was called on a bundle without chain top in which every
\* link passes, against a pool whose root is valid.
C8_Witness ==
    /\ op = "ValidateBundle"
    /\ NoChainTop
    /\ AllLinksPass
    /\ \E r \in PoolRoots : Passes(r, r)
    /\ ret.err = ErrNoTrustAnchor

\* C9: a call of validate, Validate or ValidateBundle leaves every cell of
\* the heap (the certificates of the bundle and of the pool, field by field),
\* the bundle slice and the pool as they were.
C9_CallsLeaveInputsUnchanged ==
    [][op' \in {"validateCertificate", "Validate", "ValidateBundle"}
           => heap' = heap /\ bundle' = bundle /\ pool' = pool]_vars

\* ValidateBundle succeeded on a chain: validate cleared the signature of
\* its copy of the leaf, of the intermediate and of the root.
C9_Witness ==
    /\ op = "ValidateBundle"
    /\ ret.err = Nil
    /\ Len(bundle) >= 2
    /\ heap = UniverseHeap.heap

\* C10: the outcome of ValidateBundle is that of every ordering of the same
\* bundle: the same success or failure and, on success, the same client
\* certificate.
C10_OutcomeIndependentOfOrder ==
    op = "ValidateBundle"
        => \A p \in Orderings :
               \E r \in {ValidateBundle(heap, pool, p, now)} :
                   /\ (r.err = Nil) <=> (ret.err = Nil)
                   /\ r.err = Nil => r.cert = ret.cert

---------------------------------------------------------------------------
(* validateCertificate alone, and Certificate.Copy. *)

\* What the signature alone decides for arg under its own key.
BySignature == IF SignedBy(arg, arg) THEN Nil ELSE ErrBadSignature

\* C5: with a validity present, validate returns the not-yet-valid error
\* exactly when notBefore is not zero and now is before it, else the expired
\* error exactly when notAfter is not zero and now is after it, else what the
\* signature decides.
C5_TimeWindowThenSignature ==
    (op = "validateCertificate" /\ heap[arg].Validity # NULL)
        => ret.err =
               IF NotBeforeOf(arg) # 0 /\ now < NotBeforeOf(arg) * TicksPerSecond
               THEN ErrNotYetValid
               ELSE IF NotAfterOf(arg) # 0 /\ now > NotAfterOf(arg) * TicksPerSecond
               THEN ErrExpired
               ELSE BySignature

\* validate accepted a certificate at the very instant of both its bounds.
C5_Witness ==
    /\ op = "validateCertificate"
    /\ heap[arg].Validity # NULL
    /\ NotBeforeOf(arg) # 0
    /\ now = NotBeforeOf(arg) * TicksPerSecond
    /\ now = NotAfterOf(arg) * TicksPerSecond
    /\ ret.err = Nil

\* The validity of c is absent, or each of its bounds is absent or zero.
Unconstrained(c) ==
    \/ heap[c].Validity = NULL
    \/ NotBeforeOf(c) = 0 /\ NotAfterOf(c) = 0

\* What C6 asks of a validate that returned: an absent or zero bound is not
\* checked, and with no bound left the signature alone decides.
IgnoresAbsentBounds ==
    /\ Unconstrained(arg) => ret.err = BySignature
    /\ (heap[arg].Validity # NULL /\ NotBeforeOf(arg) = 0)
           => ret.err # ErrNotYetValid
    /\ (heap[arg].Validity # NULL /\ NotAfterOf(arg) = 0)
           => ret.err # ErrExpired

\* C6: on a certificate whose validity is absent, or present with an absent
\* or zero bound, validate never fails on the time check of such a bound and
\* never aborts: with no bound left it completes and returns what the
\* signature decides, at every clock value.
C6_UnconstrainedNeverFailsOnTime ==
    op = "validateCertificate" => IgnoresAbsentBounds

\* C6 holds of the certificates that carry a validity: it fails only on the
\* nil Validity that Certificate.Copy dereferences.
C6_HoldsWhenValidityPresent ==
    (op = "validateCertificate" /\ heap[arg].Validity # NULL)
        => IgnoresAbsentBounds

\* The certificate the last store did not go through.
Untouched(who) == IF who = clone THEN arg ELSE clone

\* C7: after Copy, a store through the clone leaves every field of the
\* original as it was, and a store through the original leaves every field
\* of the clone as it was.
C7_CloneSharesNoStorage ==
    [][op' \in StoreOps
           => CertValue(heap', Untouched(ret'.cert))
                  = CertValue(heap, Untouched(ret'.cert))]_vars

\* The stores that go to storage the clone does not share: the key bytes,
\* the signature bytes, the fields of the Validity struct and of the
\* Extension structs.
UnsharedStoreOps ==
    {"StoreKeyByte", "StoreSignatureByte", "ClearSignature", "ClearNotBefore",
     "StoreExtension"}

\* C7 holds of the stores to unshared storage: it fails on the Time values
\* the bounds point to and on the Value bytes of the extensions.
C7_HoldsOfUnsharedStores ==
    [][op' \in UnsharedStoreOps
           => CertValue(heap', Untouched(ret'.cert))
                  = CertValue(heap, Untouched(ret'.cert))]_vars

=============================================================================
